---- MODULE Spec2Model ----
(***************************************************************************)
(* State-machine model of the two buffer-management building blocks:       *)
(*   - LRUKReplacer        (src/src/buffer/lru_k_replacer.cpp)              *)
(*   - ExtendibleHashTable (src/src/container/hash/extendible_hash_table.cpp)*)
(* The two components share no state.  SpecReplacer runs the replacer and  *)
(* SpecHash runs the hash table, one call after the other; SpecScenario    *)
(* runs the three-insert split scenario; SpecReplacerThreads and           *)
(* SpecHashThreads run the calls of several threads under latch_.          *)
(***************************************************************************)
EXTENDS Integers, Sequences, FiniteSets, TLC

\* ------------------------------------------------------------------------
\* Bounds of the model
\* ------------------------------------------------------------------------
\* num_frames handed to the LRUKReplacer constructor
NumFrames == 2
\* largest k handed to the LRUKReplacer constructor
MaxK == 3
\* largest bucket_size handed to the ExtendibleHashTable constructor
MaxBucketSize == 2
\* the keys handed to the hash table are 0 .. NumKeys - 1
NumKeys == 5
\* number of bits the directory mask can hold: the model's width of the int in
\* "int mask = (1 << global_depth_) - 1", beyond which the shift overflows
MaxDepth == 2

\* ------------------------------------------------------------------------
\* State
\* ------------------------------------------------------------------------
VARIABLES
    \* LRUKReplacer
    replacer_size_,    \* size_t replacer_size_
    k_,                \* size_t k_
    curr_size_,        \* size_t curr_size_
    hist_list_,        \* std::list<frame_id_t>, front first
    cache_list_,       \* std::list<frame_id_t>, front first
    frame_entities_,   \* unordered_map<frame_id_t, FrameEntity>
    last_op,           \* name of the public operation that ran last
    evict_out,         \* what the last Evict handed back (NoFrame: it returned false)
    \* ExtendibleHashTable
    global_depth_,     \* int global_depth_
    bucket_size_,      \* size_t bucket_size_
    num_buckets_,      \* int num_buckets_
    dir_,              \* std::vector<std::shared_ptr<Bucket>>: slot index -> bucket id
    buckets,           \* the Bucket objects some slot refers to: id -> [size_, depth_, list_]
    h_pc,              \* "idle": latch_ free; "retry": inside Insert, between two
                       \* rounds of InsertInternal; "overflow": the call ran out of mask bits
    ins_key,           \* key argument of the Insert in progress
    ins_value,         \* value argument of the Insert in progress
    h_op,              \* name of the public operation that ran last
    h_out,             \* what the last Find or Remove returned (Insert: key's old value)
    shadow,            \* history: key -> value of its last Insert, NoValue once removed
    \* threads
    latch_,            \* std::mutex latch_ of the object: the thread that holds it
    t_call,            \* the replacer operation the holder of latch_ is inside
    t_out              \* what the Size or Get function that ran last returned

replacerVars ==
    <<replacer_size_, k_, curr_size_, hist_list_, cache_list_, frame_entities_,
      last_op, evict_out>>

hashVars ==
    <<global_depth_, bucket_size_, num_buckets_, dir_, buckets, h_pc, ins_key,
      ins_value, h_op, h_out, shadow>>

threadVars == <<latch_, t_call, t_out>>

vars == <<replacerVars, hashVars, threadVars>>

\* ------------------------------------------------------------------------
\* LRUKReplacer
\* ------------------------------------------------------------------------
\* evict_out when Evict returned false: a value no caller hands in as a frame id
NoFrame == 0 - 2

\* frame ids the callers hand in: one below 0 and up to one past replacer_size_ + 1
FrameInputs == (0 - 1) .. (NumFrames + 1)

\* static_cast<size_t>(frame_id) > replacer_size_ : a negative frame_id_t wraps
\* to a value above every replacer_size_ the model uses.
InvalidFrame(frame_id) == frame_id < 0 \/ frame_id > replacer_size_

Tracked == DOMAIN frame_entities_

\* FrameEntity{hit_count_, evictable_, it_}; it_ names the list holding the node
FrameEntity(hits, ev, list) == [hit_count_ |-> hits, evictable_ |-> ev, it_ |-> list]

\* emplace_back in place of emplace_front
EmplaceBack(list, id) == Append(list, id)

\* std::list::emplace_front
EmplaceFront(list, id) == <<id>> \o list

\* index of the node of frame id in list (0 when it has none)
RECURSIVE NodeIndex(_, _, _)
NodeIndex(list, id, i) ==
    IF i > Len(list) THEN 0
    ELSE IF list[i] = id THEN i
    ELSE NodeIndex(list, id, i + 1)

\* an erase that drops the front node whatever the iterator refers to
ListErasePopFront(list, id) == IF list = <<>> THEN list ELSE Tail(list)

\* std::list::erase(it_) of the node of frame id
ListErase(list, id) ==
    LET i == NodeIndex(list, id, 1) IN
    IF i = 0 THEN list
    ELSE SubSeq(list, 1, i - 1) \o SubSeq(list, i + 1, Len(list))

\* an erase that leaves the record in the map
MapEraseKeep(map, id) == map

\* unordered_map::erase(id)
MapErase(map, id) == [f \in (DOMAIN map) \ {id} |-> map[f]]

\* The reverse scan of Evict over one list, from rbegin (index Len) to rend:
\* "missing" when a node has no entity, "hit" at the first evictable one.
RECURSIVE ScanBack(_, _)
ScanBack(list, i) ==
    IF i = 0 THEN [kind |-> "none", id |-> NoFrame, list |-> "none"]
    ELSE IF list[i] \notin Tracked
         THEN [kind |-> "missing", id |-> NoFrame, list |-> "none"]
    ELSE IF frame_entities_[list[i]].evictable_
         THEN [kind |-> "hit", id |-> list[i], list |-> "none"]
    ELSE ScanBack(list, i - 1)

\* a scan that looks at cache_list_ before hist_list_
EvictVictimCacheFirst ==
    LET c == ScanBack(cache_list_, Len(cache_list_)) IN
    IF c.kind # "none" THEN [c EXCEPT !.list = "cache"]
    ELSE [ScanBack(hist_list_, Len(hist_list_)) EXCEPT !.list = "hist"]

\* a scan that does not look at evictable_
EvictVictimAnyFrame ==
    IF hist_list_ # <<>>
    THEN [kind |-> "hit", id |-> hist_list_[Len(hist_list_)], list |-> "hist"]
    ELSE IF cache_list_ # <<>>
    THEN [kind |-> "hit", id |-> cache_list_[Len(cache_list_)], list |-> "cache"]
    ELSE [kind |-> "none", id |-> NoFrame, list |-> "none"]

\* Evict, lines 27-64: hist_list_ is scanned first, cache_list_ after it
EvictVictim ==
    LET h == ScanBack(hist_list_, Len(hist_list_)) IN
    IF h.kind # "none" THEN [h EXCEPT !.list = "hist"]
    ELSE [ScanBack(cache_list_, Len(cache_list_)) EXCEPT !.list = "cache"]

\* the guard of Evict's first return
EvictEmpty == curr_size_ <= 0

Evict ==
    /\ last_op' = "Evict"
    /\ IF EvictEmpty
       THEN /\ evict_out' = NoFrame
            /\ UNCHANGED <<replacer_size_, k_, curr_size_, hist_list_, cache_list_,
                           frame_entities_>>
       ELSE LET v == EvictVictim IN
            IF v.kind # "hit"
            THEN /\ evict_out' = NoFrame
                 /\ UNCHANGED <<replacer_size_, k_, curr_size_, hist_list_,
                                cache_list_, frame_entities_>>
            ELSE /\ hist_list_' = IF v.list = "hist"
                                  THEN ListErase(hist_list_, v.id) ELSE hist_list_
                 /\ cache_list_' = IF v.list = "cache"
                                   THEN ListErase(cache_list_, v.id) ELSE cache_list_
                 /\ frame_entities_' = MapErase(frame_entities_, v.id)
                 /\ curr_size_' = curr_size_ - 1
                 /\ evict_out' = v.id
                 /\ UNCHANGED <<replacer_size_, k_>>

\* RecordAccess, lines 73-90, on the entity map with hist_list_/cache_list_
RecordAccessLists(frame_id) ==
    LET isNew == frame_id \notin Tracked
        hist1 == IF isNew THEN EmplaceFront(hist_list_, frame_id) ELSE hist_list_
        old   == IF isNew THEN FrameEntity(0, TRUE, "hist") ELSE frame_entities_[frame_id]
        hits  == old.hit_count_ + 1
    IN  IF hits = k_
        THEN [hist  |-> ListErase(hist1, frame_id),
              cache |-> EmplaceFront(cache_list_, frame_id),
              ent   |-> FrameEntity(hits, old.evictable_, "cache")]
        ELSE IF hits > k_
        THEN [hist  |-> hist1,
              cache |-> EmplaceFront(ListErase(cache_list_, frame_id), frame_id),
              ent   |-> FrameEntity(hits, old.evictable_, "cache")]
        ELSE [hist  |-> hist1,
              cache |-> cache_list_,
              ent   |-> FrameEntity(hits, old.evictable_, old.it_)]

\* hit_count_ is an unbounded counter that the code only compares with k_: the
\* model stops counting a frame's accesses once hit_count_ is above k_.
RecordAccess(frame_id) ==
    /\ frame_id \in Tracked => frame_entities_[frame_id].hit_count_ <= k_
    /\ last_op' = "RecordAccess"
    /\ evict_out' = NoFrame
    /\ IF InvalidFrame(frame_id)
       THEN UNCHANGED <<replacer_size_, k_, curr_size_, hist_list_, cache_list_,
                        frame_entities_>>
       ELSE LET r == RecordAccessLists(frame_id) IN
            /\ hist_list_' = r.hist
            /\ cache_list_' = r.cache
            /\ frame_entities_' =
                   [f \in Tracked \cup {frame_id} |->
                       IF f = frame_id THEN r.ent ELSE frame_entities_[f]]
            /\ curr_size_' = IF frame_id \in Tracked THEN curr_size_ ELSE curr_size_ + 1
            /\ UNCHANGED <<replacer_size_, k_>>

\* a SetEvictable that moves curr_size_ on every call
SetEvictableSizeAlways(ent, set_evictable) ==
    IF set_evictable THEN curr_size_ + 1 ELSE curr_size_ - 1

\* SetEvictable, lines 105-111: curr_size_ after the call
SetEvictableSize(ent, set_evictable) ==
    IF ent.evictable_ /\ ~set_evictable THEN curr_size_ - 1
    ELSE IF ~ent.evictable_ /\ set_evictable THEN curr_size_ + 1
    ELSE curr_size_

SetEvictable(frame_id, set_evictable) ==
    /\ last_op' = "SetEvictable"
    /\ evict_out' = NoFrame
    /\ IF InvalidFrame(frame_id) \/ frame_id \notin Tracked
       THEN UNCHANGED <<replacer_size_, k_, curr_size_, hist_list_, cache_list_,
                        frame_entities_>>
       ELSE /\ curr_size_' = SetEvictableSize(frame_entities_[frame_id], set_evictable)
            /\ frame_entities_' =
                   [frame_entities_ EXCEPT ![frame_id].evictable_ = set_evictable]
            /\ UNCHANGED <<replacer_size_, k_, hist_list_, cache_list_>>

Remove(frame_id) ==
    /\ last_op' = "Remove"
    /\ evict_out' = NoFrame
    /\ IF \/ InvalidFrame(frame_id)
          \/ frame_id \notin Tracked
          \/ ~frame_entities_[frame_id].evictable_
       THEN UNCHANGED <<replacer_size_, k_, curr_size_, hist_list_, cache_list_,
                        frame_entities_>>
       ELSE /\ hist_list_' = IF frame_entities_[frame_id].hit_count_ < k_
                             THEN ListErase(hist_list_, frame_id) ELSE hist_list_
            /\ cache_list_' = IF frame_entities_[frame_id].hit_count_ >= k_
                              THEN ListErase(cache_list_, frame_id) ELSE cache_list_
            /\ curr_size_' = curr_size_ - 1
            /\ frame_entities_' = MapErase(frame_entities_, frame_id)
            /\ UNCHANGED <<replacer_size_, k_>>

\* Size(): return curr_size_
Size == curr_size_

\* LRUKReplacer(num_frames, k)
LRUKReplacerNew(num_frames, k) ==
    /\ replacer_size_ = num_frames
    /\ k_ = k
    /\ curr_size_ = 0
    /\ hist_list_ = <<>>
    /\ cache_list_ = <<>>
    /\ frame_entities_ = <<>>
    /\ last_op = "new"
    /\ evict_out = NoFrame

\* ------------------------------------------------------------------------
\* Properties of the LRUKReplacer (checked under SpecReplacer)
\* ------------------------------------------------------------------------
Evictable(f) == f \in Tracked /\ frame_entities_[f].evictable_

EvictableUnderK == {f \in Tracked : Evictable(f) /\ frame_entities_[f].hit_count_ < k_}

EvictableAtLeastK == {f \in Tracked : Evictable(f) /\ frame_entities_[f].hit_count_ >= k_}

\* list with every node of frame id taken out, the order of the rest kept
Without(list, id) == SelectSeq(list, LAMBDA x : x # id)

\* number of nodes of list whose entity is evictable
RECURSIVE CountEvictable(_)
CountEvictable(list) ==
    IF list = <<>> THEN 0
    ELSE (IF Evictable(Head(list)) THEN 1 ELSE 0) + CountEvictable(Tail(list))

\* C1 (eviction ordering): an Evict called while some evictable frame has
\* hit_count_ < k_ returns one of those frames; so a frame with hit_count_ >= k_
\* is returned only when no evictable frame with hit_count_ < k_ exists.
C1_EvictionOrdering ==
    [][(last_op' = "Evict" /\ EvictableUnderK # {})
          => evict_out' \in EvictableUnderK]_vars

\* An Evict has returned a frame, and an evictable frame below k_ and an
\* evictable frame at or above k_ are both still tracked (so both groups were
\* candidates of that Evict).
C1_Witness ==
    /\ last_op = "Evict"
    /\ evict_out # NoFrame
    /\ EvictableUnderK # {}
    /\ EvictableAtLeastK # {}

\* C2 (LRU tie-break), in the claim's equivalent form: both sequences are ordered
\* most-recently-accessed-first, so every accepted RecordAccess(f) leaves f at
\* the front of the sequence that holds it, also when f stays below k_.
C2_MostRecentFirst ==
    [][\A f \in FrameInputs :
          (RecordAccess(f) /\ ~InvalidFrame(f))
             => \/ (hist_list_' # <<>> /\ Head(hist_list_') = f)
                \/ (cache_list_' # <<>> /\ Head(cache_list_') = f)]_vars

\* C3 (size invariant): Size() is the number of records with evictable_ set,
\* which is the number of evictable nodes met by scanning both lists.
C3_SizeInvariant ==
    /\ Size = Cardinality({f \in Tracked : frame_entities_[f].evictable_})
    /\ Size = CountEvictable(hist_list_) + CountEvictable(cache_list_)

\* Two evictable frames and a non-evictable one are tracked, over both lists,
\* right after a Remove.
C3_Witness ==
    /\ last_op = "Remove"
    /\ curr_size_ = 2
    /\ \E f \in Tracked : ~frame_entities_[f].evictable_
    /\ hist_list_ # <<>>
    /\ cache_list_ # <<>>

\* C4 (non-evictable exclusion): Evict never returns a frame whose evictable_ is
\* false; such a frame keeps its record, and both lists are the old lists with at
\* most the victim's node taken out, so its position among the others is kept.
C4_NonEvictableExclusion ==
    [][last_op' = "Evict" =>
          /\ \A f \in Tracked :
                ~frame_entities_[f].evictable_ =>
                    /\ evict_out' # f
                    /\ f \in DOMAIN frame_entities_'
                    /\ frame_entities_'[f] = frame_entities_[f]
          /\ hist_list_' = Without(hist_list_, evict_out')
          /\ cache_list_' = Without(cache_list_, evict_out')]_vars

\* An Evict has returned a frame although the node at the tail of hist_list_,
\* the first one its scan looks at, is a non-evictable frame.
C4_Witness ==
    /\ last_op = "Evict"
    /\ evict_out # NoFrame
    /\ hist_list_ # <<>>
    /\ ~frame_entities_[hist_list_[Len(hist_list_)]].evictable_

\* C8 (out-of-range rejection): every tracked frame id lies in
\* [0, replacer_size_) and no more than replacer_size_ frames are tracked.
C8_TrackedInRange ==
    /\ \A f \in Tracked : 0 <= f /\ f < replacer_size_
    /\ Cardinality(Tracked) <= replacer_size_

\* C9 (Evict result): Evict returns false exactly when Size() = 0, and then
\* changes nothing; otherwise it returns a tracked frame, deletes exactly that
\* record and that node, takes 1 off curr_size_ and keeps every other record and
\* the order of the remaining nodes.
C9_EvictResult ==
    [][last_op' = "Evict" =>
          IF Size = 0
          THEN /\ evict_out' = NoFrame
               /\ UNCHANGED <<curr_size_, hist_list_, cache_list_, frame_entities_>>
          ELSE /\ evict_out' \in Tracked
               /\ DOMAIN frame_entities_' = Tracked \ {evict_out'}
               /\ \A f \in DOMAIN frame_entities_' :
                      frame_entities_'[f] = frame_entities_[f]
               /\ curr_size_' = curr_size_ - 1
               /\ hist_list_' = Without(hist_list_, evict_out')
               /\ cache_list_' = Without(cache_list_, evict_out')
               /\ Len(hist_list_') + Len(cache_list_')
                      = Len(hist_list_) + Len(cache_list_) - 1]_vars

\* An Evict has returned a frame and two other frames are left in one list.
C9_Witness ==
    /\ last_op = "Evict"
    /\ evict_out # NoFrame
    /\ (Len(hist_list_) = 2 \/ Len(cache_list_) = 2)

\* number of nodes of list that hold frame id
RECURSIVE Occurrences(_, _)
Occurrences(list, id) ==
    IF list = <<>> THEN 0
    ELSE (IF Head(list) = id THEN 1 ELSE 0) + Occurrences(Tail(list), id)

\* C15 (sequence partition): every tracked frame has exactly one node, in
\* hist_list_ exactly when hit_count_ < k_ and in cache_list_ exactly when
\* hit_count_ >= k_, its it_ refers to the list of that node, and no list holds
\* a frame id without a record.
C15_SequencePartition ==
    /\ \A f \in Tracked :
          /\ Occurrences(hist_list_, f) + Occurrences(cache_list_, f) = 1
          /\ (Occurrences(hist_list_, f) = 1) <=> (frame_entities_[f].hit_count_ < k_)
          /\ (Occurrences(cache_list_, f) = 1) <=> (frame_entities_[f].hit_count_ >= k_)
          /\ (frame_entities_[f].it_ = "hist") <=> (Occurrences(hist_list_, f) = 1)
    /\ \A i \in 1 .. Len(hist_list_) : hist_list_[i] \in Tracked
    /\ \A i \in 1 .. Len(cache_list_) : cache_list_[i] \in Tracked

\* Three frames are tracked with k_ >= 2, some in each list, right after a
\* RecordAccess that moved a frame into cache_list_.
C15_Witness ==
    /\ last_op = "RecordAccess"
    /\ k_ >= 2
    /\ Cardinality(Tracked) = 3
    /\ hist_list_ # <<>>
    /\ cache_list_ # <<>>
    /\ frame_entities_[Head(cache_list_)].hit_count_ = k_

\* C16 (RecordAccess transitions): RecordAccess(f) with f in [0, replacer_size_)
\* adds exactly 1 to f's hit_count_; an untracked f ends with hit_count_ 1 and
\* evictable_ set and Size() one larger, a tracked f keeps evictable_ and Size();
\* at hit_count_ = k_ the frame leaves hist_list_ and is the front of
\* cache_list_, above k_ it is the front of cache_list_ again; every other
\* record and the order of the other frames in both lists are unchanged.
C16_RecordAccessTransitions ==
    [][\A f \in 0 .. (replacer_size_ - 1) :
          (last_op' = "RecordAccess" /\ RecordAccess(f)) =>
             LET before == IF f \in Tracked THEN frame_entities_[f].hit_count_ ELSE 0
                 after  == frame_entities_'[f].hit_count_
             IN  /\ DOMAIN frame_entities_' = Tracked \cup {f}
                 /\ after = before + 1
                 /\ \A g \in Tracked \ {f} : frame_entities_'[g] = frame_entities_[g]
                 /\ IF f \in Tracked
                    THEN /\ frame_entities_'[f].evictable_ = frame_entities_[f].evictable_
                         /\ Size' = Size
                    ELSE /\ frame_entities_'[f].evictable_
                         /\ Size' = Size + 1
                 /\ after = k_ =>
                       /\ Occurrences(hist_list_', f) = 0
                       /\ Head(cache_list_') = f
                 /\ after > k_ => Head(cache_list_') = f
                 /\ Without(hist_list_', f) = Without(hist_list_, f)
                 /\ Without(cache_list_', f) = Without(cache_list_, f)]_vars

\* A RecordAccess has taken a frame above k_ to the front of cache_list_, ahead
\* of another cached frame, while hist_list_ holds a frame too.
C16_Witness ==
    /\ last_op = "RecordAccess"
    /\ Len(cache_list_) >= 2
    /\ frame_entities_[Head(cache_list_)].hit_count_ > k_
    /\ hist_list_ # <<>>

\* C17 (no-op paths): SetEvictable on an untracked frame, on a frame outside
\* [0, replacer_size_) or with the flag the frame already has, and Remove on an
\* untracked, out-of-range or non-evictable frame change no record, no list and
\* not curr_size_; SetEvictable never changes a list or a hit_count_; Remove of
\* an evictable tracked frame deletes exactly its record and node and takes 1
\* off curr_size_.
C17_NoOpPaths ==
    [][/\ \A f \in FrameInputs, flag \in BOOLEAN :
             SetEvictable(f, flag) =>
                /\ UNCHANGED <<hist_list_, cache_list_>>
                /\ DOMAIN frame_entities_' = Tracked
                /\ \A g \in Tracked :
                      frame_entities_'[g].hit_count_ = frame_entities_[g].hit_count_
                /\ (\/ f \notin Tracked
                    \/ f < 0
                    \/ f >= replacer_size_
                    \/ frame_entities_[f].evictable_ = flag)
                      => UNCHANGED <<frame_entities_, curr_size_>>
       /\ \A f \in FrameInputs :
             Remove(f) =>
                IF \/ f \notin Tracked
                   \/ f < 0
                   \/ f >= replacer_size_
                   \/ ~frame_entities_[f].evictable_
                THEN UNCHANGED <<frame_entities_, hist_list_, cache_list_, curr_size_>>
                ELSE /\ DOMAIN frame_entities_' = Tracked \ {f}
                     /\ \A g \in Tracked \ {f} : frame_entities_'[g] = frame_entities_[g]
                     /\ hist_list_' = Without(hist_list_, f)
                     /\ cache_list_' = Without(cache_list_, f)
                     /\ Len(hist_list_') + Len(cache_list_')
                           = Len(hist_list_) + Len(cache_list_) - 1
                     /\ curr_size_' = curr_size_ - 1]_vars

\* ------------------------------------------------------------------------
\* ExtendibleHashTable
\* ------------------------------------------------------------------------
\* K = int, V = std::string (the instantiation of line 201)
Keys == 0 .. (NumKeys - 1)

Values == {"a", "b"}

NoValue == "none"

NoKey == 0 - 1

BucketSizes == 0 .. MaxBucketSize

\* std::hash<int>()(key): the value of the key itself, as a size_t
StdHash(key) == key

\* x & ((1 << depth) - 1)
LowBits(x, depth) == x % (2 ^ depth)

\* IndexOf under a given global depth
IndexOfAt(key, global_depth) == LowBits(StdHash(key), global_depth)

IndexOf(key) == IndexOfAt(key, global_depth_)

GetGlobalDepthInternal == global_depth_

GetLocalDepthInternal(dir_index) == buckets[dir_[dir_index]].depth_

GetNumBucketsInternal == num_buckets_

\* Bucket(array_size, depth)
Bucket(array_size, depth) == [size_ |-> array_size, depth_ |-> depth, list_ |-> <<>>]

\* Bucket::IsFull
IsFull(bucket) == Len(bucket.list_) = bucket.size_

\* index of the first node of list_ whose key is key (0: none)
RECURSIVE FirstNode(_, _, _)
FirstNode(list, key, i) ==
    IF i > Len(list) THEN 0
    ELSE IF list[i].first = key THEN i
    ELSE FirstNode(list, key, i + 1)

\* Bucket::Find
BucketFind(bucket, key) ==
    LET i == FirstNode(bucket.list_, key, 1) IN
    IF i = 0 THEN [found |-> FALSE, value |-> NoValue]
    ELSE [found |-> TRUE, value |-> bucket.list_[i].second]

\* Bucket::Remove
BucketRemove(bucket, key) ==
    LET i == FirstNode(bucket.list_, key, 1) IN
    IF i = 0 THEN [ok |-> FALSE, bucket |-> bucket]
    ELSE [ok |-> TRUE,
          bucket |-> [bucket EXCEPT !.list_ =
                         SubSeq(bucket.list_, 1, i - 1)
                             \o SubSeq(bucket.list_, i + 1, Len(bucket.list_))]]

\* an Insert that appends without looking at IsFull
BucketInsertNoFullCheck(bucket, key, value) ==
    LET i == FirstNode(bucket.list_, key, 1) IN
    IF i # 0
    THEN [ok |-> TRUE, bucket |-> [bucket EXCEPT !.list_[i].second = value]]
    ELSE [ok |-> TRUE,
          bucket |-> [bucket EXCEPT !.list_ =
                         Append(bucket.list_, [first |-> key, second |-> value])]]

\* an Insert that tests IsFull before it looks for the key
BucketInsertFullFirst(bucket, key, value) ==
    LET i == FirstNode(bucket.list_, key, 1) IN
    IF IsFull(bucket)
    THEN [ok |-> FALSE, bucket |-> bucket]
    ELSE IF i # 0
    THEN [ok |-> TRUE, bucket |-> [bucket EXCEPT !.list_[i].second = value]]
    ELSE [ok |-> TRUE,
          bucket |-> [bucket EXCEPT !.list_ =
                         Append(bucket.list_, [first |-> key, second |-> value])]]

\* Bucket::Insert
BucketInsert(bucket, key, value) ==
    LET i == FirstNode(bucket.list_, key, 1) IN
    IF i # 0
    THEN [ok |-> TRUE, bucket |-> [bucket EXCEPT !.list_[i].second = value]]
    ELSE IF IsFull(bucket)
    THEN [ok |-> FALSE, bucket |-> bucket]
    ELSE [ok |-> TRUE,
          bucket |-> [bucket EXCEPT !.list_ =
                         Append(bucket.list_, [first |-> key, second |-> value])]]

\* ExtendibleHashTable::Find, lines 75-77
TableFind(key) == BucketFind(buckets[dir_[IndexOf(key)]], key)

\* std::make_shared<Bucket>: the smallest id that names no bucket of used
FreshId(used) ==
    CHOOSE n \in 0 .. Cardinality(used) :
        n \notin used /\ \A m \in 0 .. (n - 1) : m \in used

\* a global_depth_++ without the push_back loop
DoubleDirNoCopy(dir) == dir

\* lines 104-107: every slot is pushed back once more
DoubleDir(dir) ==
    LET n == Cardinality(DOMAIN dir) IN
    [i \in 0 .. (2 * n - 1) |-> IF i < n THEN dir[i] ELSE dir[i - n]]

\* a redistribution that tests the bits below the newly significant one only
SplitGoesLowOldBits(key, global_depth, new_depth, low_index) ==
    LowBits(IndexOfAt(key, global_depth), new_depth - 1) = low_index

\* lines 119-120: whether an entry of the full bucket goes to new_bucket_1
SplitGoesLow(key, global_depth, new_depth, low_index) ==
    LowBits(IndexOfAt(key, global_depth), new_depth) = low_index

\* a repointing that hands every slot of the full bucket to new_bucket_1
RepointSlotAllLow(i, dir, base_depth, new_depth, low_index, id1, id2) ==
    IF LowBits(i, base_depth) = low_index THEN id1 ELSE dir[i]

\* a repointing with new_bucket_1 and new_bucket_2 exchanged
RepointSlotSwapped(i, dir, base_depth, new_depth, low_index, id1, id2) ==
    IF LowBits(i, base_depth) = low_index
    THEN IF LowBits(i, new_depth) = low_index THEN id2 ELSE id1
    ELSE dir[i]

\* lines 127-135: the bucket of slot i after the split
RepointSlot(i, dir, base_depth, new_depth, low_index, id1, id2) ==
    IF LowBits(i, base_depth) = low_index
    THEN IF LowBits(i, new_depth) = low_index THEN id1 ELSE id2
    ELSE dir[i]

\* the buckets some slot of dir refers to (a shared_ptr<Bucket> nobody holds is freed)
Live(dir, heap) ==
    [id \in {dir[i] : i \in DOMAIN dir} |-> heap[id]]

\* One round of InsertInternal, lines 95-136: "done" when bucket->Insert took the
\* entry, "overflow" when the split would need a mask bit the int cannot hold,
\* "split" with the table as line 136 leaves it.
InsertInternalRound(key, value) ==
    LET idx    == IndexOf(key)
        bid    == dir_[idx]
        bucket == buckets[bid]
        r      == BucketInsert(bucket, key, value)
        grow   == GetGlobalDepthInternal = GetLocalDepthInternal(idx)
        gd1    == IF grow THEN global_depth_ + 1 ELSE global_depth_
        dir1   == IF grow THEN DoubleDir(dir_) ELSE dir_
        new_depth == bucket.depth_ + 1
        low_index == LowBits(idx, bucket.depth_)
        id1    == FreshId(DOMAIN buckets)
        id2    == FreshId((DOMAIN buckets) \cup {id1})
        items1 == SelectSeq(bucket.list_,
                      LAMBDA ele : SplitGoesLow(ele.first, gd1, new_depth, low_index))
        items2 == SelectSeq(bucket.list_,
                      LAMBDA ele : ~SplitGoesLow(ele.first, gd1, new_depth, low_index))
        dir2   == [i \in DOMAIN dir1 |->
                      RepointSlot(i, dir1, bucket.depth_, new_depth, low_index, id1, id2)]
        heap2  == [id \in (DOMAIN buckets) \cup {id1, id2} |->
                      IF id = id1
                      THEN [Bucket(bucket_size_, new_depth) EXCEPT !.list_ = items1]
                      ELSE IF id = id2
                      THEN [Bucket(bucket_size_, new_depth) EXCEPT !.list_ = items2]
                      ELSE buckets[id]]
    IN  IF r.ok
        THEN [kind |-> "done", global_depth |-> global_depth_, dir |-> dir_,
              heap |-> [buckets EXCEPT ![bid] = r.bucket],
              num_buckets |-> num_buckets_]
        ELSE IF grow /\ global_depth_ >= MaxDepth
        THEN [kind |-> "overflow", global_depth |-> global_depth_, dir |-> dir_,
              heap |-> buckets, num_buckets |-> num_buckets_]
        ELSE [kind |-> "split", global_depth |-> gd1, dir |-> dir2,
              heap |-> Live(dir2, heap2), num_buckets |-> num_buckets_ + 1]

\* the effect of one round on the table, for the call Insert(key, value)
\* (Insert returns nothing: h_out records the value key had before the round)
InsertStep(key, value) ==
    LET r == InsertInternalRound(key, value) IN
    /\ global_depth_' = r.global_depth
    /\ dir_' = r.dir
    /\ buckets' = r.heap
    /\ num_buckets_' = r.num_buckets
    /\ h_op' = "Insert"
    /\ h_out' = [ok |-> TRUE, value |-> TableFind(key).value]
    /\ IF r.kind = "done"
       THEN /\ h_pc' = "idle"
            /\ ins_key' = NoKey
            /\ ins_value' = NoValue
            /\ shadow' = [shadow EXCEPT ![key] = value]
       ELSE /\ h_pc' = IF r.kind = "split" THEN "retry" ELSE "overflow"
            /\ ins_key' = key
            /\ ins_value' = value
            /\ shadow' = shadow
    /\ UNCHANGED bucket_size_

\* Insert(key, value): takes latch_ and runs the first round of InsertInternal
Insert(key, value) ==
    /\ h_pc = "idle"
    /\ InsertStep(key, value)

\* line 137: return InsertInternal(key, value), the next round of the same call
InsertRetry ==
    /\ h_pc = "retry"
    /\ InsertStep(ins_key, ins_value)

\* ExtendibleHashTable::Find
Find(key) ==
    /\ h_pc = "idle"
    /\ h_op' = "Find"
    /\ h_out' = LET r == TableFind(key) IN [ok |-> r.found, value |-> r.value]
    /\ UNCHANGED <<global_depth_, bucket_size_, num_buckets_, dir_, buckets, h_pc,
                   ins_key, ins_value, shadow>>

\* ExtendibleHashTable::Remove (named HashRemove: Remove is the replacer's)
HashRemove(key) ==
    /\ h_pc = "idle"
    /\ LET bid == dir_[IndexOf(key)]
           r   == BucketRemove(buckets[bid], key)
       IN  /\ buckets' = [buckets EXCEPT ![bid] = r.bucket]
           /\ h_out' = [ok |-> r.ok, value |-> NoValue]
    /\ h_op' = "Remove"
    /\ shadow' = [shadow EXCEPT ![key] = NoValue]
    /\ UNCHANGED <<global_depth_, bucket_size_, num_buckets_, dir_, h_pc, ins_key,
                   ins_value>>

\* ExtendibleHashTable(bucket_size)
ExtendibleHashTableNew(bucket_size) ==
    /\ global_depth_ = 0
    /\ bucket_size_ = bucket_size
    /\ num_buckets_ = 1
    /\ dir_ = [i \in {0} |-> 0]
    /\ buckets = [id \in {0} |-> Bucket(bucket_size, 0)]
    /\ h_pc = "idle"
    /\ ins_key = NoKey
    /\ ins_value = NoValue
    /\ h_op = "new"
    /\ h_out = [ok |-> TRUE, value |-> NoValue]
    /\ shadow = [k \in Keys |-> NoValue]

\* ------------------------------------------------------------------------
\* Properties of the ExtendibleHashTable (checked under SpecHash)
\* ------------------------------------------------------------------------
\* what Find(key) has to return according to the calls made so far
Expected(key) ==
    IF shadow[key] = NoValue
    THEN [found |-> FALSE, value |-> NoValue]
    ELSE [found |-> TRUE, value |-> shadow[key]]

LocalDepth(i) == buckets[dir_[i]].depth_

\* C5 (hash round-trip): between two calls, Find(k) returns the value of the last
\* Insert(k, v) for every key inserted and not removed since, and fails for
\* every key never inserted or removed last.
C5_RoundTrip ==
    h_pc = "idle" => \A key \in Keys : TableFind(key) = Expected(key)

\* A Remove has deleted a key of a table that was split down to depth 2 and
\* still holds keys in three or more buckets.
C5_Witness ==
    /\ h_pc = "idle"
    /\ h_op = "Remove"
    /\ h_out.ok
    /\ global_depth_ >= 2
    /\ Cardinality({dir_[IndexOf(key)] : key \in {k \in Keys : shadow[k] # NoValue}}) >= 3

\* C6 (depth invariant): every bucket a slot refers to has depth_ <= global_depth_,
\* and two slots refer to the same bucket exactly when they agree on the low
\* depth_ bits of the first one's bucket.
C6_DepthInvariant ==
    /\ \A i \in DOMAIN dir_ : LocalDepth(i) <= global_depth_
    /\ \A i, j \in DOMAIN dir_ :
          (LowBits(i, LocalDepth(i)) = LowBits(j, LocalDepth(i))) <=> (dir_[i] = dir_[j])

\* The directory has four slots, two of them sharing a bucket of depth 1 and the
\* other two holding a bucket of depth 2 each.
C6_Witness ==
    /\ h_pc = "idle"
    /\ global_depth_ = 2
    /\ \E i \in DOMAIN dir_ : LocalDepth(i) = 1
    /\ \E i \in DOMAIN dir_ : LocalDepth(i) = 2

\* C7 (capacity invariant): after every completed call no bucket of the directory
\* holds more than bucket_size_ entries.
C7_CapacityInvariant ==
    h_pc = "idle" =>
        \A i \in DOMAIN dir_ : Len(buckets[dir_[i]].list_) <= bucket_size_

\* After an Insert that split, a bucket made by a split is filled to capacity 2.
C7_Witness ==
    /\ h_pc = "idle"
    /\ h_op = "Insert"
    /\ bucket_size_ = 2
    /\ \E i \in DOMAIN dir_ :
          LocalDepth(i) >= 1 /\ Len(buckets[dir_[i]].list_) = bucket_size_

\* C10 (Insert always succeeds): every round of every Insert(key, value) goes on to
\* a return, never running out of directory bits, and on return Find(key)
\* yields value.
C10_InsertAlwaysSucceeds ==
    [][\A key \in Keys, value \in Values :
          (Insert(key, value) \/ (InsertRetry /\ ins_key = key /\ ins_value = value))
             => /\ h_pc' # "overflow"
                /\ h_pc' = "idle" => TableFind(key)' = [found |-> TRUE, value |-> value]]_vars

\* the buckets the slots of dir_ refer to
Referenced == {dir_[i] : i \in DOMAIN dir_}

\* the entries of a bucket's list_
Elems(list) == {list[i] : i \in 1 .. Len(list)}

\* C14 (directory shape): dir_ always has exactly 2^global_depth_ slots; no step
\* lowers global_depth_, the number of slots or the bucket count; Find and
\* Remove change neither global_depth_, nor any local depth, nor the bucket of
\* any slot (h_op' names the function a step belongs to).
C14_DirectoryShape ==
    /\ [](DOMAIN dir_ = 0 .. (2 ^ global_depth_ - 1))
    /\ [][/\ global_depth_' >= global_depth_
          /\ Cardinality(DOMAIN dir_') >= Cardinality(DOMAIN dir_)
          /\ GetNumBucketsInternal' >= GetNumBucketsInternal
          /\ h_op' \in {"Find", "Remove"} =>
                /\ UNCHANGED <<global_depth_, dir_, num_buckets_>>
                /\ DOMAIN buckets' = DOMAIN buckets
                /\ \A id \in DOMAIN buckets :
                      buckets'[id].depth_ = buckets[id].depth_]_vars

\* A Remove has just taken an entry out of a table whose directory has four
\* slots and buckets of local depth 1 and 2.
C14_Witness ==
    /\ h_op = "Remove"
    /\ h_out.ok
    /\ global_depth_ = 2
    /\ \E i, j \in DOMAIN dir_ : LocalDepth(i) = 1 /\ LocalDepth(j) = 2

\* C18 (overwrite without split): Insert(key, value) for a stored key returns
\* after one round having replaced only key's value: global_depth_, dir_, the
\* bucket count, every bucket's depth and the keys and their order in every
\* bucket are as before, and so is the value of every other key, also when
\* key's bucket is full.  (Every round of Insert(key, value) puts "Insert" in
\* h_op, key's old value in h_out, and either key and value in ins_key and
\* ins_value or, when it returns, value in shadow[key]: the tests on them
\* select the steps worth matching against Insert(key, value).)
C18_OverwriteNoSplit ==
    [][(h_op' = "Insert" /\ h_pc = "idle" /\ h_out'.value # NoValue) =>
          \A key \in Keys, value \in Values :
             (/\ \/ ins_key' = key /\ ins_value' = value
                 \/ ins_key' = NoKey /\ shadow'[key] = value
              /\ TableFind(key).found
              /\ h_out'.value = TableFind(key).value
              /\ Insert(key, value)) =>
                /\ h_pc' = "idle"
                /\ UNCHANGED <<global_depth_, dir_, num_buckets_>>
                /\ DOMAIN buckets' = DOMAIN buckets
                /\ \A id \in DOMAIN buckets :
                      /\ buckets'[id].depth_ = buckets[id].depth_
                      /\ buckets'[id].size_ = buckets[id].size_
                      /\ Len(buckets'[id].list_) = Len(buckets[id].list_)
                      /\ \A i \in 1 .. Len(buckets[id].list_) :
                            /\ buckets'[id].list_[i].first = buckets[id].list_[i].first
                            /\ buckets'[id].list_[i].second =
                                  IF buckets[id].list_[i].first = key
                                  THEN value
                                  ELSE buckets[id].list_[i].second]_vars

\* An Insert has just overwritten the value of a stored key in a table with two
\* or more buckets, all of them full.
C18_Witness ==
    /\ h_op = "Insert"
    /\ h_pc = "idle"
    /\ h_out.value # NoValue
    /\ global_depth_ >= 1
    /\ bucket_size_ >= 1
    /\ \A id \in DOMAIN buckets : IsFull(buckets[id])

\* C19 (split step): a round of Insert that splits doubles dir_ and adds 1 to
\* global_depth_ exactly when the full bucket's local depth equals
\* global_depth_; the slots that referred to the full bucket now refer to two
\* new buckets of depth one higher, every other slot and bucket is unchanged,
\* and the two new buckets hold exactly the full bucket's entries, each in the
\* bucket of the slot its key hashes to.
C19_SplitRound ==
    [][h_pc' = "retry" =>
          LET full      == dir_[IndexOf(ins_key')]
              old_depth == buckets[full].depth_
              n         == Cardinality(DOMAIN dir_)
              Was(i)    == dir_[i % n]
              moved     == {i \in DOMAIN dir_' : Was(i) = full}
              created   == {dir_'[i] : i \in moved}
          IN  /\ IF old_depth = global_depth_
                 THEN /\ global_depth_' = global_depth_ + 1
                      /\ DOMAIN dir_' = 0 .. (2 * n - 1)
                 ELSE /\ global_depth_' = global_depth_
                      /\ DOMAIN dir_' = DOMAIN dir_
              /\ Cardinality(created) = 2
              /\ created \cap DOMAIN buckets = {}
              /\ \A id \in created :
                    /\ buckets'[id].depth_ = old_depth + 1
                    /\ buckets'[id].size_ = bucket_size_
                    /\ \A e \in Elems(buckets'[id].list_) :
                          dir_'[IndexOfAt(e.first, global_depth_')] = id
              /\ \A i \in (DOMAIN dir_') \ moved :
                    /\ dir_'[i] = Was(i)
                    /\ buckets'[dir_'[i]] = buckets[Was(i)]
              /\ UNION {Elems(buckets'[id].list_) : id \in created}
                    = Elems(buckets[full].list_)
              /\ \A id1, id2 \in created :
                    id1 # id2 =>
                       Len(buckets'[id1].list_) + Len(buckets'[id2].list_)
                          = Len(buckets[full].list_)]_vars

\* A round has just split a bucket of local depth 1 under a directory of four
\* slots, without doubling it: all four slots refer to different buckets.
C19_Witness ==
    /\ h_pc = "retry"
    /\ global_depth_ = 2
    /\ Cardinality(Referenced) = 4

\* C20 (bucket count): GetNumBuckets() is the number of distinct buckets the
\* slots of dir_ refer to; it starts at 1 and grows by exactly 1 in a round that
\* splits, by 0 in every other step; both buckets a split creates are referred
\* to by a slot.
C20_BucketCount ==
    /\ GetNumBucketsInternal = 1
    /\ [](GetNumBucketsInternal = Cardinality(Referenced))
    /\ [][IF h_pc' = "retry"
          THEN /\ GetNumBucketsInternal' = GetNumBucketsInternal + 1
               /\ Cardinality(Referenced' \ Referenced) = 2
          ELSE GetNumBucketsInternal' = GetNumBucketsInternal]_vars

\* A round has just split a bucket of capacity 2 into the second and third
\* bucket of a directory of four slots.
C20_Witness ==
    /\ h_pc = "retry"
    /\ bucket_size_ = 2
    /\ global_depth_ = 2
    /\ GetNumBucketsInternal = 3

\* the keys the table holds according to the calls made so far
Stored == {key \in Keys : shadow[key] # NoValue}

\* bit n of x
Bit(x, n) == (x \div (2 ^ n)) % 2

\* three stored keys whose hashes all agree on bit 0 but not all on bit 1
ThreeCollidingKeys ==
    /\ Cardinality(Stored) = 3
    /\ \A a, b \in Stored : Bit(StdHash(a), 0) = Bit(StdHash(b), 0)
    /\ \E a, b \in Stored : Bit(StdHash(a), 1) # Bit(StdHash(b), 1)

\* C13 (split scenario), as the claim states it: on a fresh table of bucket
\* capacity 2, once three Inserts of distinct keys whose hashes agree on bit 0
\* but not all on bit 1 have returned, global_depth_ is 1 and there are exactly
\* two buckets, each holding only entries whose low-order hash bit is that of
\* its slots.
C13_SplitScenario ==
    (h_pc = "idle" /\ ThreeCollidingKeys) =>
       /\ GetGlobalDepthInternal = 1
       /\ GetNumBucketsInternal = 2
       /\ \A i \in DOMAIN dir_ :
             \A e \in Elems(buckets[dir_[i]].list_) :
                Bit(StdHash(e.first), 0) = Bit(i, 0)

\* C13 (split scenario), amended: in the same scenario global_depth_ is 2 and
\* there are exactly three buckets, each holding only entries whose hash agrees
\* with its slots on the bucket's local-depth low-order bits.
C13_SplitScenarioAmended ==
    (h_pc = "idle" /\ ThreeCollidingKeys) =>
       /\ GetGlobalDepthInternal = 2
       /\ GetNumBucketsInternal = 3
       /\ Cardinality(Referenced) = 3
       /\ \A i \in DOMAIN dir_ :
             \A e \in Elems(buckets[dir_[i]].list_) :
                LowBits(StdHash(e.first), LocalDepth(i)) = LowBits(i, LocalDepth(i))

\* The third Insert of the scenario has returned.
C13_Witness ==
    /\ h_op = "Insert"
    /\ h_pc = "idle"
    /\ bucket_size_ = 2
    /\ ThreeCollidingKeys

\* ------------------------------------------------------------------------
\* Threads on one LRUKReplacer
\* ------------------------------------------------------------------------
\* the threads that call into one object
Threads == {"t1", "t2"}

\* latch_ when no thread holds it
NoThread == "none"

\* t_out when the last step was not the return of Size or of a Get function
NoResult == 0 - 1

\* the thread-related state right after construction
LatchNew ==
    /\ latch_ = NoThread
    /\ t_call = "none"
    /\ t_out = NoResult

\* std::lock_guard<std::mutex> lock(latch_), the first statement of RecordAccess,
\* SetEvictable, Evict and Remove (lines 21, 68, 95, 116): thread t gets past it
\* once no thread holds latch_.
LockGuard(t, op) ==
    /\ latch_ = NoThread
    /\ latch_' = t
    /\ t_call' = op
    /\ t_out' = NoResult
    /\ UNCHANGED replacerVars

\* the guard's destructor at the return of the operation of thread t
Unlock(t, op) ==
    /\ latch_ = t
    /\ t_call = op
    /\ latch_' = NoThread
    /\ t_call' = "none"
    /\ t_out' = NoResult

\* the bodies of the four locked operations, run by the thread that holds latch_
ThreadRecordAccess(t, frame_id) ==
    Unlock(t, "RecordAccess") /\ RecordAccess(frame_id)

ThreadSetEvictable(t, frame_id, set_evictable) ==
    Unlock(t, "SetEvictable") /\ SetEvictable(frame_id, set_evictable)

ThreadEvict(t) ==
    Unlock(t, "Evict") /\ Evict

ThreadRemove(t, frame_id) ==
    Unlock(t, "Remove") /\ Remove(frame_id)

\* LRUKReplacer::Size, line 139: returns curr_size_ without taking latch_, so a
\* thread that is not inside an operation of its own runs it at any time.  The
\* read races with the curr_size_++ / curr_size_-- of the thread that holds
\* latch_; it yields the value before or after that write, which are the values
\* the read gets before or after the holder's body step.
ThreadSize(t) ==
    /\ latch_ # t
    /\ t_out' = Size
    /\ last_op' = "Size"
    /\ evict_out' = NoFrame
    /\ UNCHANGED <<replacer_size_, k_, curr_size_, hist_list_, cache_list_,
                   frame_entities_, latch_, t_call>>

\* the operations of the replacer that take latch_
LockedOps == {"RecordAccess", "SetEvictable", "Evict", "Remove"}

\* C11 (tracker mutual exclusion): every step in which an operation (Size
\* included) reads or writes the replacer's state is taken while no other
\* thread is inside an operation, i.e. while latch_ is free or held by the
\* thread that takes the step.
C11_TrackerMutualExclusion ==
    [][\A t \in Threads :
          (\/ ThreadSize(t)
           \/ ThreadEvict(t)
           \/ \E f \in FrameInputs : ThreadRecordAccess(t, f) \/ ThreadRemove(t, f)
           \/ \E f \in FrameInputs, flag \in BOOLEAN : ThreadSetEvictable(t, f, flag))
             => latch_ \in {NoThread, t}]_vars

\* ------------------------------------------------------------------------
\* Threads on one ExtendibleHashTable
\* ------------------------------------------------------------------------
\* the values the threads insert
ThreadValues == {"a"}

\* a function that runs without waiting for latch_
ScopedLockNone(t) == TRUE

\* std::scoped_lock<std::mutex> lock(latch_), the first statement of every public
\* function (lines 39, 50, 62, 73, 81, 142): thread t gets past it once no
\* thread holds latch_.
ScopedLock(t) == latch_ = NoThread

\* One round of the Insert of thread t.  A round that splits a bucket whose
\* depth equals global_depth_ stops after global_depth_++ (line 103, h_pc
\* "grown"), then after the push_back loop (lines 104-107, h_pc "doubled"), and
\* ThreadSplitFinish runs lines 110-136; latch_ is released when the call returns.
ThreadInsertRound(t, key, value) ==
    LET r    == InsertInternalRound(key, value)
        grow == GetGlobalDepthInternal = GetLocalDepthInternal(IndexOf(key))
    IN  /\ IF r.kind = "split" /\ grow
           THEN /\ global_depth_' = global_depth_ + 1
                /\ h_pc' = "grown"
                /\ ins_key' = key
                /\ ins_value' = value
                /\ h_op' = "Insert"
                /\ h_out' = [ok |-> TRUE, value |-> TableFind(key).value]
                /\ latch_' = t
                /\ UNCHANGED <<bucket_size_, num_buckets_, dir_, buckets, shadow>>
           ELSE /\ InsertStep(key, value)
                /\ latch_' = IF r.kind = "done" THEN NoThread ELSE t
        /\ t_out' = NoResult
        /\ UNCHANGED t_call

\* Insert(key, value) called by thread t
ThreadInsert(t, key, value) ==
    /\ ScopedLock(t)
    /\ h_pc = "idle"
    /\ ThreadInsertRound(t, key, value)

\* line 137 in thread t
ThreadInsertRetry(t) ==
    /\ latch_ = t
    /\ h_pc = "retry"
    /\ ThreadInsertRound(t, ins_key, ins_value)

\* lines 104-107 in thread t
ThreadSplitDouble(t) ==
    /\ latch_ = t
    /\ h_pc = "grown"
    /\ dir_' = DoubleDir(dir_)
    /\ h_pc' = "doubled"
    /\ UNCHANGED <<global_depth_, bucket_size_, num_buckets_, buckets, ins_key,
                   ins_value, h_op, h_out, shadow, latch_, t_call, t_out>>

\* lines 110-136 in thread t: with the directory doubled, the rest of the round
\* is the round of a bucket whose depth is below global_depth_
ThreadSplitFinish(t) ==
    /\ latch_ = t
    /\ h_pc = "doubled"
    /\ InsertStep(ins_key, ins_value)
    /\ UNCHANGED <<latch_, t_call, t_out>>

\* Find(key) called by thread t
ThreadFind(t, key) ==
    /\ ScopedLock(t)
    /\ Find(key)
    /\ t_out' = NoResult
    /\ UNCHANGED <<latch_, t_call>>

\* Remove(key) called by thread t
ThreadHashRemove(t, key) ==
    /\ ScopedLock(t)
    /\ HashRemove(key)
    /\ t_out' = NoResult
    /\ UNCHANGED <<latch_, t_call>>

\* what a Get function leaves behind: its name in h_op and its result in t_out
Introspect(name, result) ==
    /\ h_op' = name
    /\ h_out' = [ok |-> TRUE, value |-> NoValue]
    /\ t_out' = result
    /\ UNCHANGED <<global_depth_, bucket_size_, num_buckets_, dir_, buckets, h_pc,
                   ins_key, ins_value, shadow, latch_, t_call>>

\* GetGlobalDepth() called by thread t
ThreadGetGlobalDepth(t) ==
    /\ ScopedLock(t)
    /\ Introspect("GetGlobalDepth", GetGlobalDepthInternal)

\* GetLocalDepth(dir_index) called by thread t with the index of a slot
ThreadGetLocalDepth(t, dir_index) ==
    /\ ScopedLock(t)
    /\ dir_index \in DOMAIN dir_
    /\ Introspect("GetLocalDepth", GetLocalDepthInternal(dir_index))

\* GetNumBuckets() called by thread t
ThreadGetNumBuckets(t) ==
    /\ ScopedLock(t)
    /\ Introspect("GetNumBuckets", GetNumBucketsInternal)

\* a public function of the table starts in thread t: the step of a Get
\* function, of a Find, of a Remove, or the first step of an Insert (the first
\* conjunct of the other cases is implied by the action after it and is there
\* to be tested first)
Enters(t) ==
    \/ /\ t_out' # NoResult
       /\ \/ ThreadGetGlobalDepth(t)
          \/ ThreadGetNumBuckets(t)
          \/ \E i \in DOMAIN dir_ : ThreadGetLocalDepth(t, i)
    \/ /\ h_op' = "Find"
       /\ \E key \in Keys : ThreadFind(t, key)
    \/ /\ h_op' = "Remove"
       /\ \E key \in Keys : ThreadHashRemove(t, key)
    \/ /\ h_op' = "Insert"
       /\ h_pc \notin {"retry", "grown", "doubled"}
       /\ latch_' \in {NoThread, t}

\* the table as a completed call leaves it: 2^global_depth_ slots, the slots of
\* a bucket are those that agree on its depth_ low-order bits, every entry sits
\* in the bucket of the slot its key indexes, num_buckets_ counts the buckets
SplitComplete ==
    /\ DOMAIN dir_ = 0 .. (2 ^ global_depth_ - 1)
    /\ \A i \in DOMAIN dir_ :
          /\ LocalDepth(i) <= global_depth_
          /\ \A j \in DOMAIN dir_ :
                (dir_[i] = dir_[j]) <=>
                   (LowBits(i, LocalDepth(i)) = LowBits(j, LocalDepth(i)))
          /\ \A e \in Elems(buckets[dir_[i]].list_) :
                LowBits(StdHash(e.first), LocalDepth(i)) = LowBits(i, LocalDepth(i))
    /\ GetNumBucketsInternal = Cardinality(Referenced)

\* C12 (atomic split under concurrency): whenever latch_ is free no call is in
\* progress, no split is half-done and Find(k) would return what the completed
\* calls say for every key; a thread starts a public function only while
\* latch_ is free, so on such a table, and a Find then returns the value of the
\* last completed Insert of its key (not found after a Remove); while a thread
\* holds latch_ no other thread takes it.
C12_AtomicSplit ==
    /\ [](latch_ = NoThread =>
             /\ h_pc = "idle"
             /\ SplitComplete
             /\ \A key \in Keys : TableFind(key) = Expected(key))
    /\ [][/\ \A t \in Threads : Enters(t) => latch_ = NoThread
          /\ \A t \in Threads, key \in Keys :
                (h_op' = "Find" /\ ThreadFind(t, key)) =>
                   h_out' = [ok |-> Expected(key).found, value |-> Expected(key).value]
          /\ latch_ # NoThread => latch_' \in {latch_, NoThread}]_vars

\* Thread t2 is inside an Insert that has doubled the four-slot directory's
\* predecessor but not yet repointed a slot, on a table that holds keys.
C12_Witness ==
    /\ latch_ = "t2"
    /\ h_pc = "doubled"
    /\ global_depth_ = 2
    /\ Stored # {}

\* ------------------------------------------------------------------------
\* Specifications
\* ------------------------------------------------------------------------
InitReplacer ==
    /\ \E k \in 1 .. MaxK : LRUKReplacerNew(NumFrames, k)
    /\ ExtendibleHashTableNew(1)
    /\ LatchNew

NextReplacer ==
    \/ \E frame_id \in FrameInputs : RecordAccess(frame_id) /\ UNCHANGED <<hashVars, threadVars>>
    \/ \E frame_id \in FrameInputs, set_evictable \in BOOLEAN :
           SetEvictable(frame_id, set_evictable) /\ UNCHANGED <<hashVars, threadVars>>
    \/ Evict /\ UNCHANGED <<hashVars, threadVars>>
    \/ \E frame_id \in FrameInputs : Remove(frame_id) /\ UNCHANGED <<hashVars, threadVars>>

SpecReplacer == InitReplacer /\ [][NextReplacer]_vars

InitHash ==
    /\ \E bucket_size \in BucketSizes : ExtendibleHashTableNew(bucket_size)
    /\ LRUKReplacerNew(NumFrames, 1)
    /\ LatchNew

NextHash ==
    \/ \E key \in Keys, value \in Values : Insert(key, value) /\ UNCHANGED <<replacerVars, threadVars>>
    \/ InsertRetry /\ UNCHANGED <<replacerVars, threadVars>>
    \/ \E key \in Keys : Find(key) /\ UNCHANGED <<replacerVars, threadVars>>
    \/ \E key \in Keys : HashRemove(key) /\ UNCHANGED <<replacerVars, threadVars>>

SpecHash == InitHash /\ [][NextHash]_vars

\* The split scenario: a fresh table of bucket capacity 2 that takes Inserts of
\* keys it does not hold yet, three of them at most.
InitScenario ==
    /\ ExtendibleHashTableNew(2)
    /\ LRUKReplacerNew(NumFrames, 1)
    /\ LatchNew

ScenarioInsert(key, value) ==
    /\ shadow[key] = NoValue
    /\ Cardinality(Stored) < 3
    /\ Insert(key, value)

NextScenario ==
    \/ \E key \in Keys, value \in Values :
           ScenarioInsert(key, value) /\ UNCHANGED <<replacerVars, threadVars>>
    \/ InsertRetry /\ UNCHANGED <<replacerVars, threadVars>>

SpecScenario == InitScenario /\ [][NextScenario]_vars

\* Threads calling the operations of one LRUKReplacer
InitReplacerThreads == InitReplacer

NextReplacerThreads ==
    \/ \E t \in Threads, op \in LockedOps : LockGuard(t, op) /\ UNCHANGED hashVars
    \/ \E t \in Threads, frame_id \in FrameInputs :
           ThreadRecordAccess(t, frame_id) /\ UNCHANGED hashVars
    \/ \E t \in Threads, frame_id \in FrameInputs, set_evictable \in BOOLEAN :
           ThreadSetEvictable(t, frame_id, set_evictable) /\ UNCHANGED hashVars
    \/ \E t \in Threads : ThreadEvict(t) /\ UNCHANGED hashVars
    \/ \E t \in Threads, frame_id \in FrameInputs :
           ThreadRemove(t, frame_id) /\ UNCHANGED hashVars
    \/ \E t \in Threads : ThreadSize(t) /\ UNCHANGED hashVars

SpecReplacerThreads == InitReplacerThreads /\ [][NextReplacerThreads]_vars

\* Threads calling the public functions of one ExtendibleHashTable
InitHashThreads == InitHash

NextHashThreads ==
    \/ \E t \in Threads, key \in Keys, value \in ThreadValues :
           ThreadInsert(t, key, value) /\ UNCHANGED replacerVars
    \/ \E t \in Threads : ThreadInsertRetry(t) /\ UNCHANGED replacerVars
    \/ \E t \in Threads : ThreadSplitDouble(t) /\ UNCHANGED replacerVars
    \/ \E t \in Threads : ThreadSplitFinish(t) /\ UNCHANGED replacerVars
    \/ \E t \in Threads, key \in Keys : ThreadFind(t, key) /\ UNCHANGED replacerVars
    \/ \E t \in Threads, key \in Keys : ThreadHashRemove(t, key) /\ UNCHANGED replacerVars
    \/ \E t \in Threads : ThreadGetGlobalDepth(t) /\ UNCHANGED replacerVars
    \/ \E t \in Threads, dir_index \in 0 .. (2 ^ MaxDepth - 1) :
           ThreadGetLocalDepth(t, dir_index) /\ UNCHANGED replacerVars
    \/ \E t \in Threads : ThreadGetNumBuckets(t) /\ UNCHANGED replacerVars

SpecHashThreads == InitHashThreads /\ [][NextHashThreads]_vars
====
